---- MODULE Spec2Model ----
(***************************************************************************)
(* Model of extract.py: the course-catalog parser.  A document is a        *)
(* sequence of text lines (strings).  extract() walks the lines once to    *)
(* split them into course-name lines (cn_list) and raw segments (cd_list), *)
(* builds one payload per course (course_dict) and, when TSV output is     *)
(* requested, writes the record rows and the cleaned descriptions.         *)
(* Further specifications model merge_teacher_data (teacher-merge.py),     *)
(* merge_department_files (merge-departments.py), OllamaClient.generate    *)
(* and process_requirements_with_ollama (course_onboarding.py).            *)
(***************************************************************************)
EXTENDS Integers, Sequences, FiniteSets, TLC

VARIABLES text, pc, k, new_flag, temp_c_list, cn_list, cd_list,
          course_dict, records_tsv, code_desc_dict, log, cc_dict,
          latest_data, live_data, result,
          combined_df, final_df,
          max_retries, attempt, replies, generated,
          req_text, raw_response, requirements

\* the state of extract()
extract_vars == <<text, k, new_flag, temp_c_list, cn_list, cd_list,
                  course_dict, records_tsv, code_desc_dict, log, cc_dict>>

\* the arguments and the return value of merge_teacher_data()
teacher_vars == <<latest_data, live_data, result>>

\* the frames of merge_department_files()
dept_vars == <<combined_df, final_df>>

\* the argument, the loop state and the return value of OllamaClient.generate()
ollama_vars == <<max_retries, attempt, replies, generated>>

\* the argument, the model response and the return value of
\* process_requirements_with_ollama()
requirements_vars == <<req_text, raw_response, requirements>>

onboarding_vars == <<ollama_vars, requirements_vars>>

\* what extract() never touches
other_vars == <<teacher_vars, dept_vars, onboarding_vars>>

vars == <<pc, extract_vars, teacher_vars, dept_vars, onboarding_vars>>

\* the variables of course_onboarding.py while another script runs
OnboardingIdle ==
    /\ max_retries = 0 /\ attempt = 0 /\ replies = <<>> /\ generated = "<None>"
    /\ req_text = "" /\ raw_response = "<None>" /\ requirements = <<>>

-----------------------------------------------------------------------------
(* Bounds of the model                                                     *)

MaxLines == 3

MaxK == 2

MaxRows == 2

MaxRecords == 2

MaxRetries == 3

-----------------------------------------------------------------------------
(* Characters and Python string primitives                                 *)

UPPER == {"A","B","C","D","E","F","G","H","I","J","K","L","M",
          "N","O","P","Q","R","S","T","U","V","W","X","Y","Z"}

DIGIT == {"0","1","2","3","4","5","6","7","8","9"}

WHITESPACE == {" "}

NONE == "<None>"

Min(a, b) == IF a <= b THEN a ELSE b

CharAt(s, i) == IF i >= 1 /\ i <= Len(s) THEN SubSeq(s, i, i) ELSE ""

\* Python: sub in s
Contains(s, sub) ==
    \E i \in 1..(Len(s) - Len(sub) + 1) : SubSeq(s, i, i + Len(sub) - 1) = sub

\* Python: s.strip()
strip(s) ==
    LET keep == {i \in 1..Len(s) : CharAt(s, i) \notin WHITESPACE}
    IN  IF keep = {} THEN ""
        ELSE LET a == CHOOSE i \in keep : \A j \in keep : i <= j
                 b == CHOOSE i \in keep : \A j \in keep : j <= i
             IN  SubSeq(s, a, b)

RECURSIVE replace(_, _, _)
\* Python: s.replace(old, new), old non-empty, leftmost non-overlapping
replace(s, old, new) ==
    IF Len(s) < Len(old) THEN s
    ELSE IF SubSeq(s, 1, Len(old)) = old
         THEN new \o replace(SubSeq(s, Len(old) + 1, Len(s)), old, new)
         ELSE CharAt(s, 1) \o replace(SubSeq(s, 2, Len(s)), old, new)

RECURSIVE split(_, _)
\* Python: s.split(sep) for a one-character separator
split(s, sep) ==
    LET hits == {i \in 1..Len(s) : CharAt(s, i) = sep}
    IN  IF hits = {} THEN <<s>>
        ELSE LET i == CHOOSE h \in hits : \A g \in hits : h <= g
             IN  <<SubSeq(s, 1, i - 1)>> \o split(SubSeq(s, i + 1, Len(s)), sep)

RECURSIVE join(_, _)
\* Python: sep.join(parts)
join(sep, parts) ==
    IF parts = <<>> THEN ""
    ELSE IF Len(parts) = 1 THEN parts[1]
    ELSE parts[1] \o sep \o join(sep, Tail(parts))

-----------------------------------------------------------------------------
(* Compiled regex patterns                                                 *)

\* ([A-Z]{2,4}\d{4}) tried at position i: length of the match, 0 if none
CodeLenAt(s, i) ==
    LET ok(n) == /\ i + n + 3 <= Len(s)
                 /\ \A j \in 0..(n - 1) : CharAt(s, i + j) \in UPPER
                 /\ \A j \in 0..3 : CharAt(s, i + n + j) \in DIGIT
    IN  IF ok(4) THEN 8 ELSE IF ok(3) THEN 7 ELSE IF ok(2) THEN 6 ELSE 0

RECURSIVE first_code_from(_, _)
\* the scan of search(): the first position from i on where the pattern
\* matches, 0 if there is none
first_code_from(s, i) ==
    IF i > Len(s) THEN 0
    ELSE IF CodeLenAt(s, i) > 0 THEN i
    ELSE first_code_from(s, i + 1)

\* COURSE_CODE_PATTERN.search(s): group(1) of the leftmost match, or NONE
COURSE_CODE_PATTERN_search(s) ==
    LET i == first_code_from(s, 1)
    IN  IF i = 0 THEN NONE ELSE SubSeq(s, i, i + CodeLenAt(s, i) - 1)

NAME_CHARS == DIGIT \cup UPPER \cup WHITESPACE \cup
              {"-", "(", ")", "&", "+", "?", ",", ":"}

\* COURSE_NAME_PATTERN.match(s): ^([A-Z]{2,4}\d{4}) ([0-9A-Z\s\-\(\)&\+\?,:]*)$
COURSE_NAME_PATTERN_match(s) ==
    LET n == CodeLenAt(s, 1)
    IN  /\ n > 0
        /\ CharAt(s, n + 1) = " "
        /\ \A j \in (n + 2)..Len(s) : CharAt(s, j) \in NAME_CHARS

\* UNIT_PATTERN.match(s): \(\d{1}\s*(unit|UNIT).*\) anchored at the start
UNIT_PATTERN_match(s) ==
    /\ CharAt(s, 1) = "("
    /\ CharAt(s, 2) \in DIGIT
    /\ \E j \in 3..Len(s) :
          /\ \A m \in 3..(j - 1) : CharAt(s, m) \in WHITESPACE
          /\ SubSeq(s, j, Min(j + 3, Len(s))) \in {"unit", "UNIT"}
          /\ \E m \in (j + 4)..Len(s) : CharAt(s, m) = ")"

\* PAGE_NUMBER_PATTERN.match(s): \d+ / \d+ anchored at the start
PAGE_NUMBER_PATTERN_match(s) ==
    \E a \in 1..Len(s) :
        /\ \A m \in 1..a : CharAt(s, m) \in DIGIT
        /\ SubSeq(s, a + 1, Min(a + 3, Len(s))) = " / "
        /\ CharAt(s, a + 4) \in DIGIT

description_markers ==
    <<"Course Description:", "Course  Description", "Description:", "Course Description">>

\* any(marker in line for marker in description_markers)
has_description_marker(line) ==
    \E m \in 1..Len(description_markers) : Contains(line, description_markers[m])

PREREQ_MARKER == "Pre-requisite(s):"

-----------------------------------------------------------------------------
(* Field extractors                                                        *)

\* hanging_course_name that skips the "(" lines instead of stopping there
hanging_course_name_NoBreak(course_raw) ==
    SelectSeq(course_raw, LAMBDA line : ~Contains(line, "(") /\ line # "")

RECURSIVE hanging_course_name(_)
\* lines before the first line containing "(", empty lines skipped
hanging_course_name(course_raw) ==
    IF course_raw = <<>> THEN <<>>
    ELSE IF Contains(Head(course_raw), "(") THEN <<>>
    ELSE IF Head(course_raw) # ""
         THEN <<Head(course_raw)>> \o hanging_course_name(Tail(course_raw))
         ELSE hanging_course_name(Tail(course_raw))

\* get_course_code that returns the last match of the line, not the first
\* get_course_code that looks for the code after the first blank only
get_course_code_Title(course_name) ==
    LET hits == {i \in 1..Len(course_name) :
                    /\ CodeLenAt(course_name, i) > 0
                    /\ \E j \in 1..(i - 1) : CharAt(course_name, j) = " "}
    IN  IF hits = {} THEN NONE
        ELSE LET i == CHOOSE h \in hits : \A g \in hits : h <= g
             IN  SubSeq(course_name, i, i + CodeLenAt(course_name, i) - 1)

get_course_code_Last(course_name) ==
    LET hits == {i \in 1..Len(course_name) : CodeLenAt(course_name, i) > 0}
    IN  IF hits = {} THEN NONE
        ELSE LET i == CHOOSE h \in hits : \A g \in hits : g <= h
             IN  SubSeq(course_name, i, i + CodeLenAt(course_name, i) - 1)

get_course_code(course_name) == COURSE_CODE_PATTERN_search(course_name)

get_course_name(course_name, course_raw) ==
    LET course_code == get_course_code(course_name)
    IN  IF course_code = NONE THEN strip(course_name)
        ELSE LET raw_course_name == replace(course_name, course_code, "")
                 hanging == hanging_course_name(course_raw)
             IN  strip(join(" ", <<strip(raw_course_name)>> \o hanging))

RECURSIVE get_course_unit_Unstripped(_)
\* get_course_unit that slices the raw line instead of the stripped one
get_course_unit_Unstripped(course_raw) ==
    IF course_raw = <<>> THEN NONE
    ELSE IF UNIT_PATTERN_match(strip(Head(course_raw)))
         THEN SubSeq(Head(course_raw), 2, 2)
         ELSE get_course_unit_Unstripped(Tail(course_raw))

RECURSIVE get_course_unit(_)
get_course_unit(course_raw) ==
    IF course_raw = <<>> THEN NONE
    ELSE LET stripped_line == strip(Head(course_raw))
         IN  IF UNIT_PATTERN_match(stripped_line)
             THEN SubSeq(stripped_line, 2, 2)
             ELSE get_course_unit(Tail(course_raw))

RECURSIVE desc_loop(_, _)
desc_loop(course_raw, found_description) ==
    IF course_raw = <<>> THEN <<>>
    ELSE LET line == Head(course_raw)
             found == found_description \/ has_description_marker(line)
         IN  (IF found THEN <<line>> ELSE <<>>) \o desc_loop(Tail(course_raw), found)

\* the list of lines from the first description-marker line onward
get_course_desc(course_raw) == desc_loop(course_raw, FALSE)

RECURSIVE pre_loop(_, _)
pre_loop(course_raw, found_prereq) ==
    IF course_raw = <<>> THEN <<>>
    ELSE LET line == Head(course_raw)
             found == found_prereq \/ Contains(line, PREREQ_MARKER)
         IN  IF has_description_marker(line) THEN <<>>
             ELSE (IF found
                   THEN IF Contains(line, PREREQ_MARKER)
                        THEN <<replace(line, PREREQ_MARKER, "")>>
                        ELSE <<line>>
                   ELSE <<>>) \o pre_loop(Tail(course_raw), found)

\* get_course_pre that joins the fragments with a space
get_course_pre_Spaced(course_raw) == join(" ", pre_loop(course_raw, FALSE))

get_course_pre(course_raw) == join("", pre_loop(course_raw, FALSE))

\* tsv_prerequisite that compares with "None" instead of searching for it
tsv_prerequisite_ExactNone(prerequisite) ==
    LET temp_prerequisite == IF prerequisite # "" THEN strip(prerequisite) ELSE "N/A"
    IN  IF temp_prerequisite = "None" THEN "N/A" ELSE temp_prerequisite

\* the prerequisite column written to the records TSV
tsv_prerequisite(prerequisite) ==
    LET temp_prerequisite == IF prerequisite # "" THEN strip(prerequisite) ELSE "N/A"
    IN  IF Contains(temp_prerequisite, "None") \/ Contains(temp_prerequisite, "None Course")
        THEN "N/A"
        ELSE temp_prerequisite

\* the cleaned text of one description (a list of lines)
\* clean_description that keeps a text without colon as it is
clean_description_KeepPlain(v) ==
    LET tv == SelectSeq(v, LAMBDA line : ~PAGE_NUMBER_PATTERN_match(strip(line)))
        parts == split(join("", tv), ":")
    IN  strip(join("", IF Len(parts) = 1 THEN parts ELSE Tail(parts)))

clean_description(v) ==
    LET tv == SelectSeq(v, LAMBDA line : ~PAGE_NUMBER_PATTERN_match(strip(line)))
    IN  strip(join("", Tail(split(join("", tv), ":"))))

\* dict_put that keeps the value already stored under the key
dict_put_KeepFirst(d, key, payload) ==
    IF \E i \in 1..Len(d) : d[i].course_code = key THEN d ELSE Append(d, payload)

\* course_dict[cc] = payload on an insertion-ordered dict
dict_put(d, key, payload) ==
    IF \E i \in 1..Len(d) : d[i].course_code = key
    THEN [i \in 1..Len(d) |-> IF d[i].course_code = key THEN payload ELSE d[i]]
    ELSE Append(d, payload)

-----------------------------------------------------------------------------
(* Input documents                                                         *)

LinePool ==
    { "ACCT1013 PRINCIPLES OF ACCOUNTING",
      "BUSA2003 ADVANCED",
      "STRATEGIC MANAGEMENT",
      "(3 units)",
      " (4 UNIT) ",
      "Pre-requisite(s): None Course required",
      "Pre-requisite(s): ",
      "Description: Topics: A, B",
      "MATH1003 SEE ACCT1013",
      "1 / 2 of the grade" }

PoolDocs == UNION {[1..n -> LinePool] : n \in 0..MaxLines}

Codes == {"ACCT1013", "BUSA2003"}

Titles == {"PRINCIPLES OF ACCOUNTING"}

Units == {"3"}

Prerequisites == {"None", "ACCT1013"}

Descriptions == {"This course covers basics.", "Topics: A, B"}

Tuples == [code : Codes, title : Titles, unit : Units,
           prerequisite : Prerequisites, description : Descriptions]

\* the four lines of one synthetic course block
Block(t) ==
    << t.code \o " " \o t.title,
       "(" \o t.unit \o " units)",
       "Pre-requisite(s): " \o t.prerequisite,
       "Course Description: " \o t.description >>

RECURSIVE Flatten(_)
Flatten(ss) == IF ss = <<>> THEN <<>> ELSE Head(ss) \o Flatten(Tail(ss))

\* K blocks with pairwise distinct codes
TupleSeqs ==
    UNION { { ts \in [1..n -> Tuples] :
                  \A i, j \in 1..n : i # j => ts[i].code # ts[j].code } : n \in 1..MaxK }

BlockDocs == { Flatten([i \in 1..Len(ts) |-> Block(ts[i])]) : ts \in TupleSeqs }

Docs == PoolDocs \cup BlockDocs

\* COURSE_CODE_PATTERN.match(s): the pattern tried at the start of s only
COURSE_CODE_PATTERN_match(s) == CodeLenAt(s, 1) > 0

\* cc_count on a plain dict read with get(): a code is never inserted
cc_count_NoInsert(d, code) ==
    [i \in 1..Len(d) |->
        IF d[i].code = code THEN [d[i] EXCEPT !.count = @ + 1] ELSE d[i]]

\* cc_dict[code] += 1 on a defaultdict(int) that keeps insertion order
cc_count(d, code) ==
    IF \E i \in 1..Len(d) : d[i].code = code
    THEN [i \in 1..Len(d) |->
             IF d[i].code = code THEN [d[i] EXCEPT !.count = @ + 1] ELSE d[i]]
    ELSE Append(d, [code |-> code, count |-> 1])

RECURSIVE count_codes(_, _)
\* for line in text: if COURSE_CODE_PATTERN.match(line): count the searched code
count_codes(lines, d) ==
    IF lines = <<>> THEN d
    ELSE count_codes(Tail(lines),
             IF /\ COURSE_CODE_PATTERN_match(Head(lines))
                /\ COURSE_CODE_PATTERN_search(Head(lines)) # NONE
             THEN cc_count(d, COURSE_CODE_PATTERN_search(Head(lines)))
             ELSE d)

-----------------------------------------------------------------------------
(* extract(): the state machine                                            *)

\* Init with the flag started as "header open"
Init_HeaderOpen ==
    /\ text \in Docs
    /\ pc = "count_codes"
    /\ cc_dict = <<>>
    /\ k = 1
    /\ new_flag = 1
    /\ temp_c_list = <<>>
    /\ cn_list = <<>>
    /\ cd_list = <<>>
    /\ course_dict = <<>>
    /\ records_tsv = <<>>
    /\ code_desc_dict = <<>>
    /\ log = <<[level |-> "INFO", msg |-> "There are {} lines of text in the PDF",
                args |-> <<Len(text)>>]>>
    /\ latest_data = <<>> /\ live_data = <<>> /\ result = <<>>
    /\ combined_df = <<>> /\ final_df = <<>>
    /\ OnboardingIdle

Init ==
    /\ text \in Docs
    /\ pc = "count_codes"
    /\ cc_dict = <<>>
    /\ k = 1
    /\ new_flag = 0
    /\ temp_c_list = <<>>
    /\ cn_list = <<>>
    /\ cd_list = <<>>
    /\ course_dict = <<>>
    /\ records_tsv = <<>>
    /\ code_desc_dict = <<>>
    /\ log = <<[level |-> "INFO", msg |-> "There are {} lines of text in the PDF",
                args |-> <<Len(text)>>]>>
    /\ latest_data = <<>> /\ live_data = <<>> /\ result = <<>>
    /\ combined_df = <<>> /\ final_df = <<>>
    /\ OnboardingIdle

\* the sanity count of the course codes, before the segmenting pass
CountCodes ==
    /\ pc = "count_codes"
    /\ cc_dict' = count_codes(text, <<>>)
    /\ log' = Append(log, [level |-> "INFO", msg |-> "Found {} matched course code",
                            args |-> <<Len(cc_dict')>>])
    /\ pc' = "segment"
    /\ UNCHANGED <<text, k, new_flag, temp_c_list, cn_list, cd_list,
                   course_dict, records_tsv, code_desc_dict>>
    /\ UNCHANGED other_vars

\* AbsorbHeaderLine with the append forgotten: the line is dropped
AbsorbHeaderLine_Dropped ==
    /\ pc = "segment" /\ k <= Len(text)
    /\ COURSE_NAME_PATTERN_match(text[k])
    /\ new_flag = 1
    /\ k' = k + 1
    /\ UNCHANGED <<text, pc, new_flag, temp_c_list, cn_list, cd_list,
                   course_dict, records_tsv, code_desc_dict, log>>
    /\ UNCHANGED <<cc_dict, other_vars>>

\* a name-pattern line while the description marker has not been met
AbsorbHeaderLine ==
    /\ pc = "segment" /\ k <= Len(text)
    /\ COURSE_NAME_PATTERN_match(text[k])
    /\ new_flag = 1
    /\ temp_c_list' = Append(temp_c_list, text[k])
    /\ k' = k + 1
    /\ UNCHANGED <<text, pc, new_flag, cn_list, cd_list,
                   course_dict, records_tsv, code_desc_dict, log>>
    /\ UNCHANGED <<cc_dict, other_vars>>

\* StartCourse with the buffer reset forgotten
StartCourse_KeepsBuffer ==
    /\ pc = "segment" /\ k <= Len(text)
    /\ COURSE_NAME_PATTERN_match(text[k])
    /\ new_flag # 1
    /\ IF cn_list # <<>>
       THEN cd_list' = Append(cd_list, temp_c_list)
       ELSE UNCHANGED cd_list
    /\ new_flag' = 1
    /\ cn_list' = Append(cn_list, text[k])
    /\ k' = k + 1
    /\ UNCHANGED <<text, pc, temp_c_list, course_dict, records_tsv, code_desc_dict, log>>
    /\ UNCHANGED <<cc_dict, other_vars>>

\* a name-pattern line after the description marker (or the first one)
\* StartCourse that does not look at new_flag
StartCourse_AnyFlag ==
    /\ pc = "segment" /\ k <= Len(text)
    /\ COURSE_NAME_PATTERN_match(text[k])
    /\ IF cn_list # <<>>
       THEN cd_list' = Append(cd_list, temp_c_list) /\ temp_c_list' = <<>>
       ELSE UNCHANGED <<cd_list, temp_c_list>>
    /\ new_flag' = 1
    /\ cn_list' = Append(cn_list, text[k])
    /\ k' = k + 1
    /\ UNCHANGED <<text, pc, course_dict, records_tsv, code_desc_dict, log>>
    /\ UNCHANGED <<cc_dict, other_vars>>

StartCourse ==
    /\ pc = "segment" /\ k <= Len(text)
    /\ COURSE_NAME_PATTERN_match(text[k])
    /\ new_flag # 1
    /\ IF cn_list # <<>>
       THEN cd_list' = Append(cd_list, temp_c_list) /\ temp_c_list' = <<>>
       ELSE UNCHANGED <<cd_list, temp_c_list>>
    /\ new_flag' = 1
    /\ cn_list' = Append(cn_list, text[k])
    /\ k' = k + 1
    /\ UNCHANGED <<text, pc, course_dict, records_tsv, code_desc_dict, log>>
    /\ UNCHANGED <<cc_dict, other_vars>>

MarkerLine ==
    /\ pc = "segment" /\ k <= Len(text)
    /\ ~COURSE_NAME_PATTERN_match(text[k])
    /\ has_description_marker(text[k])
    /\ new_flag' = 0
    /\ temp_c_list' = Append(temp_c_list, text[k])
    /\ k' = k + 1
    /\ UNCHANGED <<text, pc, cn_list, cd_list,
                   course_dict, records_tsv, code_desc_dict, log>>
    /\ UNCHANGED <<cc_dict, other_vars>>

\* OtherLine with the append forgotten: the line is dropped
OtherLine_Dropped ==
    /\ pc = "segment" /\ k <= Len(text)
    /\ ~COURSE_NAME_PATTERN_match(text[k])
    /\ ~has_description_marker(text[k])
    /\ k' = k + 1
    /\ UNCHANGED <<text, pc, new_flag, temp_c_list, cn_list, cd_list,
                   course_dict, records_tsv, code_desc_dict, log>>
    /\ UNCHANGED <<cc_dict, other_vars>>

OtherLine ==
    /\ pc = "segment" /\ k <= Len(text)
    /\ ~COURSE_NAME_PATTERN_match(text[k])
    /\ ~has_description_marker(text[k])
    /\ temp_c_list' = Append(temp_c_list, text[k])
    /\ k' = k + 1
    /\ UNCHANGED <<text, pc, new_flag, cn_list, cd_list,
                   course_dict, records_tsv, code_desc_dict, log>>
    /\ UNCHANGED <<cc_dict, other_vars>>

\* FlushLast that saves the buffer only when a course was started
FlushLast_OnlyIfCourse ==
    /\ pc = "segment" /\ k > Len(text)
    /\ cd_list' = IF cn_list # <<>> THEN Append(cd_list, temp_c_list) ELSE cd_list
    /\ log' = Append(log, [level |-> "INFO",
                            msg |-> "Found {} Course Name, {} Course Description",
                            args |-> <<Len(cn_list), Len(cd_list')>>])
    /\ pc' = "assemble"
    /\ k' = 1
    /\ UNCHANGED <<text, new_flag, temp_c_list, cn_list,
                   course_dict, records_tsv, code_desc_dict>>
    /\ UNCHANGED <<cc_dict, other_vars>>

\* after the loop: cd_list.append(temp_c_list)
FlushLast ==
    /\ pc = "segment" /\ k > Len(text)
    /\ cd_list' = Append(cd_list, temp_c_list)
    /\ log' = Append(log, [level |-> "INFO",
                            msg |-> "Found {} Course Name, {} Course Description",
                            args |-> <<Len(cn_list), Len(cd_list')>>])
    /\ pc' = "assemble"
    /\ k' = 1
    /\ UNCHANGED <<text, new_flag, temp_c_list, cn_list,
                   course_dict, records_tsv, code_desc_dict>>
    /\ UNCHANGED <<cc_dict, other_vars>>

\* one iteration of: for n, r in zip(cn_list, cd_list)
AssembleRecord ==
    /\ pc = "assemble" /\ k <= Min(Len(cn_list), Len(cd_list))
    /\ LET n == cn_list[k]
           r == cd_list[k]
           cc == get_course_code(n)
       IN  IF cc # NONE
           THEN /\ course_dict' = dict_put(course_dict, cc,
                    [course_code |-> cc,
                     course_name |-> get_course_name(n, r),
                     unit |-> get_course_unit(r),
                     prerequisite |-> get_course_pre(r),
                     description |-> get_course_desc(r)])
                /\ UNCHANGED log
           ELSE /\ UNCHANGED course_dict
                /\ log' = Append(log, [level |-> "WARNING",
                                        msg |-> "Could not extract course code from: {}",
                                        args |-> <<n>>])
    /\ k' = k + 1
    /\ UNCHANGED <<text, pc, new_flag, temp_c_list, cn_list, cd_list,
                   records_tsv, code_desc_dict>>
    /\ UNCHANGED <<cc_dict, other_vars>>

\* save_tsv is false: return course_dict
ReturnDict ==
    /\ pc = "assemble" /\ k > Min(Len(cn_list), Len(cd_list))
    /\ pc' = "done"
    /\ UNCHANGED <<text, k, new_flag, temp_c_list, cn_list, cd_list,
                   course_dict, records_tsv, code_desc_dict, log>>
    /\ UNCHANGED <<cc_dict, other_vars>>

\* save_tsv is true: go on to write the TSV files
BeginTsv ==
    /\ pc = "assemble" /\ k > Min(Len(cn_list), Len(cd_list))
    /\ pc' = "records"
    /\ k' = 1
    /\ UNCHANGED <<text, new_flag, temp_c_list, cn_list, cd_list,
                   course_dict, records_tsv, code_desc_dict, log>>
    /\ UNCHANGED <<cc_dict, other_vars>>

\* one row of the records TSV
WriteRecordRow ==
    /\ pc = "records" /\ k <= Len(course_dict)
    /\ LET v == course_dict[k]
       IN  records_tsv' = Append(records_tsv,
               [course_code |-> v.course_code,
                course_name |-> v.course_name,
                prerequisite |-> tsv_prerequisite(v.prerequisite),
                unit |-> v.unit])
    /\ k' = k + 1
    /\ UNCHANGED <<text, pc, new_flag, temp_c_list, cn_list, cd_list,
                   course_dict, code_desc_dict, log>>
    /\ UNCHANGED <<cc_dict, other_vars>>

\* code_desc_dict[k] = v['description'] for every record
CopyDescriptions ==
    /\ pc = "records" /\ k > Len(course_dict)
    /\ code_desc_dict' = [i \in 1..Len(course_dict) |->
                            [course_code |-> course_dict[i].course_code,
                             description |-> course_dict[i].description]]
    /\ pc' = "descriptions"
    /\ k' = 1
    /\ UNCHANGED <<text, new_flag, temp_c_list, cn_list, cd_list,
                   course_dict, records_tsv, log>>
    /\ UNCHANGED <<cc_dict, other_vars>>

\* one iteration of the description clean-up loop
CleanDescription ==
    /\ pc = "descriptions" /\ k <= Len(code_desc_dict)
    /\ code_desc_dict' = [code_desc_dict EXCEPT
                            ![k].description = clean_description(code_desc_dict[k].description)]
    /\ k' = k + 1
    /\ UNCHANGED <<text, pc, new_flag, temp_c_list, cn_list, cd_list,
                   course_dict, records_tsv, log>>
    /\ UNCHANGED <<cc_dict, other_vars>>

\* the description TSV is written and extract() returns
Finish ==
    /\ pc = "descriptions" /\ k > Len(code_desc_dict)
    /\ pc' = "saved"
    /\ UNCHANGED <<text, k, new_flag, temp_c_list, cn_list, cd_list,
                   course_dict, records_tsv, code_desc_dict, log>>
    /\ UNCHANGED <<cc_dict, other_vars>>



Next ==
    \/ CountCodes
    \/ AbsorbHeaderLine
    \/ StartCourse
    \/ MarkerLine
    \/ OtherLine
    \/ FlushLast
    \/ AssembleRecord
    \/ ReturnDict
    \/ BeginTsv
    \/ WriteRecordRow
    \/ CopyDescriptions
    \/ CleanDescription
    \/ Finish

Spec == Init /\ [][Next]_vars

\* documents whose description markers carry no colon
PlainPool ==
    { "ACCT1013 PRINCIPLES OF ACCOUNTING",
      "BUSA2003 ADVANCED",
      "Course Description",
      "Course  Description of topics",
      "This course covers basics.",
      "Topics: A, B" }

PlainDocs == UNION {[1..n -> PlainPool] : n \in 0..MaxLines}

InitPlain ==
    /\ text \in PlainDocs
    /\ pc = "count_codes"
    /\ cc_dict = <<>>
    /\ k = 1
    /\ new_flag = 0
    /\ temp_c_list = <<>>
    /\ cn_list = <<>>
    /\ cd_list = <<>>
    /\ course_dict = <<>>
    /\ records_tsv = <<>>
    /\ code_desc_dict = <<>>
    /\ log = <<[level |-> "INFO", msg |-> "There are {} lines of text in the PDF",
                args |-> <<Len(text)>>]>>
    /\ latest_data = <<>> /\ live_data = <<>> /\ result = <<>>
    /\ combined_df = <<>> /\ final_df = <<>>
    /\ OnboardingIdle

SpecPlain == InitPlain /\ [][Next]_vars

-----------------------------------------------------------------------------
(* teacher-merge.py: merge_teacher_data(latest_data, live_data)            *)

\* rows of the latest API fetch: name, uid, description, url
LatestRows ==
    { [uid |-> "",    name |-> "Ann", description |-> "bio of Ann", url |-> "url of Ann"],
      [uid |-> "u1",  name |-> "Ann", description |-> "bio of Ann", url |-> "url of Ann"],
      [uid |-> " u1", name |-> "Bob", description |-> "bio of Bob", url |-> "url of Bob"],
      [uid |-> "u3",  name |-> "Cy",  description |-> "bio of Cy",  url |-> "url of Cy"] }

\* rows of the live export: the same columns, incumbencyStatus and one more
LiveRows ==
    { [uid |-> u, name |-> "Old", description |-> "old bio", url |-> "old url",
       incumbencyStatus |-> st, remark |-> "kept"] :
          u \in {"", "u1", "u2"}, st \in {"ACTIVE", "RESIGNED"} }

\* uid = row.get("uid", "").strip()
row_uid(row) == IF "uid" \in DOMAIN row THEN strip(row.uid) ELSE ""

\* row.get(key, "")
row_get(row, key) == IF key \in DOMAIN row THEN row[key] ELSE ""

\* row.copy() followed by row[key] = value
row_set(row, key, value) ==
    [f \in DOMAIN row \cup {key} |-> IF f = key THEN value ELSE row[f]]

\* latest_by_uid[uid] = row on an insertion-ordered dict
uid_put(d, uid, row) ==
    IF \E i \in 1..Len(d) : d[i].uid = uid
    THEN [i \in 1..Len(d) |-> IF d[i].uid = uid THEN [uid |-> uid, row |-> row] ELSE d[i]]
    ELSE Append(d, [uid |-> uid, row |-> row])

RECURSIVE build_latest_by_uid(_, _)
\* the index of the latest data by uid; rows without uid are not indexed
build_latest_by_uid(rows, d) ==
    IF rows = <<>> THEN d
    ELSE LET uid == row_uid(Head(rows))
         IN  build_latest_by_uid(Tail(rows),
                 IF uid # "" THEN uid_put(d, uid, Head(rows)) ELSE d)

uid_in(d, uid) == \E i \in 1..Len(d) : d[i].uid = uid

uid_lookup(d, uid) == (CHOOSE e \in {d[i] : i \in 1..Len(d)} : e.uid = uid).row

\* merged_row that forgets to mark a missing teacher as resigned
merged_row_NoResign(row, latest_by_uid) ==
    LET uid == row_uid(row)
    IN  IF uid_in(latest_by_uid, uid)
        THEN LET latest_row == uid_lookup(latest_by_uid, uid)
             IN  row_set(row_set(row_set(row_set(row,
                     "name", row_get(latest_row, "name")),
                     "description", row_get(latest_row, "description")),
                     "url", row_get(latest_row, "url")),
                     "incumbencyStatus", "ACTIVE")
        ELSE row

\* the row appended to merged_with_uid for a live row that has a uid
merged_row(row, latest_by_uid) ==
    LET uid == row_uid(row)
    IN  IF uid_in(latest_by_uid, uid)
        THEN LET latest_row == uid_lookup(latest_by_uid, uid)
             IN  row_set(row_set(row_set(row_set(row,
                     "name", row_get(latest_row, "name")),
                     "description", row_get(latest_row, "description")),
                     "url", row_get(latest_row, "url")),
                     "incumbencyStatus", "ACTIVE")
        ELSE row_set(row, "incumbencyStatus", "RESIGNED")

RECURSIVE live_loop(_, _, _)
\* for row in live_data: the state is (merged_with_uid, merged_without_uid, seen_uids)
live_loop(rows, latest_by_uid, st) ==
    IF rows = <<>> THEN st
    ELSE LET row == Head(rows)
             uid == row_uid(row)
         IN  live_loop(Tail(rows), latest_by_uid,
                 IF uid = ""
                 THEN [st EXCEPT !.merged_without_uid = Append(@, row)]
                 ELSE [st EXCEPT !.seen_uids = @ \cup {uid},
                                 !.merged_with_uid = Append(@, merged_row(row, latest_by_uid))])

RECURSIVE new_loop_All(_, _, _)
\* new_loop that does not look at seen_uids
new_loop_All(items, seen_uids, merged_with_uid) ==
    IF items = <<>> THEN merged_with_uid
    ELSE new_loop_All(Tail(items), seen_uids,
             Append(merged_with_uid,
                    row_set(Head(items).row, "incumbencyStatus", "ACTIVE")))

RECURSIVE new_loop(_, _, _)
\* for uid, row in latest_by_uid.items(): the new teachers
new_loop(items, seen_uids, merged_with_uid) ==
    IF items = <<>> THEN merged_with_uid
    ELSE new_loop(Tail(items), seen_uids,
             IF Head(items).uid \notin seen_uids
             THEN Append(merged_with_uid,
                         row_set(Head(items).row, "incumbencyStatus", "ACTIVE"))
             ELSE merged_with_uid)

merge_teacher_data(latest, live) ==
    LET latest_by_uid == build_latest_by_uid(latest, <<>>)
        st == live_loop(live, latest_by_uid,
                        [merged_with_uid |-> <<>>, merged_without_uid |-> <<>>,
                         seen_uids |-> {}])
        merged_with_uid == new_loop(latest_by_uid, st.seen_uids, st.merged_with_uid)
    IN  merged_with_uid \o st.merged_without_uid

\* the variables of extract() while another script runs
ExtractIdle ==
    /\ text = <<>> /\ k = 1 /\ new_flag = 0
    /\ temp_c_list = <<>> /\ cn_list = <<>> /\ cd_list = <<>>
    /\ course_dict = <<>> /\ records_tsv = <<>> /\ code_desc_dict = <<>>
    /\ log = <<>> /\ cc_dict = <<>>

InitTeacher ==
    /\ pc = "merge_teacher_data"
    /\ latest_data \in UNION {[1..n -> LatestRows] : n \in 0..MaxRows}
    /\ live_data \in UNION {[1..n -> LiveRows] : n \in 0..MaxRows}
    /\ result = <<>>
    /\ combined_df = <<>> /\ final_df = <<>>
    /\ ExtractIdle /\ OnboardingIdle

MergeTeacherData ==
    /\ pc = "merge_teacher_data"
    /\ result' = merge_teacher_data(latest_data, live_data)
    /\ pc' = "merged"
    /\ UNCHANGED <<latest_data, live_data, extract_vars, dept_vars, onboarding_vars>>

NextTeacher == MergeTeacherData

SpecTeacher == InitTeacher /\ [][NextTeacher]_vars

-----------------------------------------------------------------------------
(* merge-departments.py: merge_department_files()                          *)

\* the course codes in ascending order
DeptCodes == <<"ACCT1013", "BUSA2003">>

\* rows of the department files written by offering-extract.py: Year is the
\* start year of the academic year, Semester 1 is FALL and Semester 2 SPRING
DeptRecords ==
    [code : {DeptCodes[i] : i \in 1..Len(DeptCodes)}, year : {2023, 2024},
     semester : {"FALL", "SPRING"}, unit : {"DBM", "DST"}]

\* year + semester_offset, counted in half years (0.5 is one unit)
parse_semester_priority(year, semester) ==
    2 * year + (IF semester = "FALL" THEN 1 ELSE 0)

Priority(rec) == parse_semester_priority(rec.year, rec.semester)

\* the rows that can come first for a code after
\* sort_values(['Course Code', 'Priority'], ascending=[True, False])
first_of_code(df, code) ==
    {i \in 1..Len(df) :
        /\ df[i].code = code
        /\ \A j \in 1..Len(df) : df[j].code = code => Priority(df[j]) <= Priority(df[i])}

InitDept ==
    /\ pc = "merge_department_files"
    /\ combined_df \in UNION {[1..n -> DeptRecords] : n \in 0..MaxRecords}
    /\ final_df = <<>>
    /\ latest_data = <<>> /\ live_data = <<>> /\ result = <<>>
    /\ ExtractIdle /\ OnboardingIdle

\* sort, drop_duplicates(keep='first'), sort by course code
MergeDepartmentFiles ==
    /\ pc = "merge_department_files"
    /\ LET present == SelectSeq(DeptCodes,
                          LAMBDA c : \E i \in 1..Len(combined_df) : combined_df[i].code = c)
       IN  \E pick \in [1..Len(present) -> 1..Len(combined_df)] :
              /\ \A n \in 1..Len(present) : pick[n] \in first_of_code(combined_df, present[n])
              /\ final_df' = [n \in 1..Len(present) |-> combined_df[pick[n]]]
    /\ pc' = "unified"
    /\ UNCHANGED <<combined_df, extract_vars, teacher_vars, onboarding_vars>>

NextDept == MergeDepartmentFiles

SpecDept == InitDept /\ [][NextDept]_vars

-----------------------------------------------------------------------------
(* course_onboarding.py: OllamaClient.generate(model, prompt, max_retries) *)

\* what one POST to /api/generate can come back with: a status and a body,
\* or a requests.RequestException (timeout, connection error)
Replies ==
    { [kind |-> "response", status |-> 200, json |-> TRUE,  response |-> " ACCT2003 "],
      [kind |-> "response", status |-> 200, json |-> TRUE,  response |-> ""],
      [kind |-> "response", status |-> 200, json |-> FALSE, response |-> ""],
      [kind |-> "response", status |-> 500, json |-> TRUE,  response |-> ""],
      [kind |-> "RequestException", status |-> 0, json |-> FALSE, response |-> ""] }

InitOllama ==
    /\ pc = "generate"
    /\ max_retries \in 0..MaxRetries
    /\ attempt = 0
    /\ replies = <<>>
    /\ generated = NONE
    /\ req_text = "" /\ raw_response = NONE /\ requirements = <<>>
    /\ latest_data = <<>> /\ live_data = <<>> /\ result = <<>>
    /\ combined_df = <<>> /\ final_df = <<>>
    /\ ExtractIdle

\* Post with a loop that runs once more than range(max_retries)
Post_OneMore ==
    /\ pc = "generate" /\ attempt <= max_retries
    /\ \E reply \in Replies :
          /\ replies' = Append(replies, reply)
          /\ IF reply.kind = "response" /\ reply.status = 200
             THEN IF reply.json
                  THEN /\ generated' = strip(reply.response)
                       /\ pc' = "returned"
                       /\ UNCHANGED attempt
                  ELSE \/ /\ attempt' = attempt + 1
                          /\ UNCHANGED <<pc, generated>>
                       \/ /\ pc' = "raised"
                          /\ UNCHANGED <<attempt, generated>>
             ELSE /\ attempt' = attempt + 1
                  /\ UNCHANGED <<pc, generated>>
    /\ UNCHANGED <<max_retries, requirements_vars, extract_vars, teacher_vars, dept_vars>>

\* one iteration of: for attempt in range(max_retries).  A status 200 whose
\* body is not JSON makes response.json() raise: requests.JSONDecodeError,
\* a RequestException that the loop catches (requests 2.27 and later), or a
\* plain ValueError that leaves generate() (earlier releases)
Post ==
    /\ pc = "generate" /\ attempt < max_retries
    /\ \E reply \in Replies :
          /\ replies' = Append(replies, reply)
          /\ IF reply.kind = "response" /\ reply.status = 200
             THEN IF reply.json
                  THEN /\ generated' = strip(reply.response)
                       /\ pc' = "returned"
                       /\ UNCHANGED attempt
                  ELSE \/ /\ attempt' = attempt + 1
                          /\ UNCHANGED <<pc, generated>>
                       \/ /\ pc' = "raised"
                          /\ UNCHANGED <<attempt, generated>>
             ELSE /\ attempt' = attempt + 1
                  /\ UNCHANGED <<pc, generated>>
    /\ UNCHANGED <<max_retries, requirements_vars, extract_vars, teacher_vars, dept_vars>>

\* the loop is exhausted: return None
GiveUp ==
    /\ pc = "generate" /\ attempt >= max_retries
    /\ generated' = NONE
    /\ pc' = "returned"
    /\ UNCHANGED <<max_retries, attempt, replies,
                   requirements_vars, extract_vars, teacher_vars, dept_vars>>

NextOllama == Post \/ GiveUp

\* generate() is sequential code and every POST has a timeout: the loop
\* always takes its next step
SpecOllama == InitOllama /\ [][NextOllama]_vars /\ WF_vars(NextOllama)

-----------------------------------------------------------------------------
(* course_onboarding.py: process_requirements_with_ollama(text, model)     *)

\* s.find(sub): the index (from 0) of the first occurrence, -1 if none
find(s, sub) ==
    LET hits == {i \in 1..(Len(s) - Len(sub) + 1) : SubSeq(s, i, i + Len(sub) - 1) = sub}
    IN  IF hits = {} THEN -1
        ELSE (CHOOSE i \in hits : \A j \in hits : i <= j) - 1

\* s[a:b] for indices a, b >= 0
slice(s, a, b) ==
    IF a >= Min(b, Len(s)) THEN "" ELSE SubSeq(s, a + 1, Min(b, Len(s)))

\* the enrollment requirement handed to the function
RequirementTexts == {"", "N/A", " N/A ", "Passed ACCT2003, not COMP1013"}

\* what the model answers: the two tagged fields, each tag present or not,
\* with or without a sentence in front
ResponseBodies ==
    { prefix \o o1 \o c1 \o x1 \o o2 \o c2 \o x2 :
        prefix \in {"", "Sure, here it is: "},
        o1 \in {"<prerequisites>", ""}, c1 \in {"ACCT2003", ""},
        x1 \in {"</prerequisites>", ""},
        o2 \in {"<exclusions>", ""}, c2 \in {"COMP1013", ""},
        x2 \in {"</exclusions>", ""} }

\* what self.ollama.generate returns: None or the stripped response text
GenerateResults == {NONE} \cup {strip(body) : body \in ResponseBodies}

EmptyRequirements == [prerequisites |-> "", exclusions |-> ""]

\* ElementTree on <tag>content</tag>: the element's text, or a ParseError.
\* Markup inside content is well formed only as one complete prerequisites
\* element holding plain text; the element's text is what precedes it.
element_text(content) ==
    LET lt == find(content, "<")
        rest == slice(content, lt, Len(content))
        close == find(rest, "</prerequisites>")
        inner == slice(rest, Len("<prerequisites>"), close)
        after == slice(rest, close + Len("</prerequisites>"), Len(rest))
    IN  IF Contains(content, "&") THEN [ok |-> FALSE, text |-> ""]
        ELSE IF lt = -1 THEN [ok |-> TRUE, text |-> content]
        ELSE IF /\ slice(rest, 0, Len("<prerequisites>")) = "<prerequisites>"
                /\ close # -1
                /\ find(inner, "<") = -1
                /\ find(after, "<") = -1
             THEN [ok |-> TRUE, text |-> slice(content, 0, lt)]
             ELSE [ok |-> FALSE, text |-> ""]

\* lines 271-281: the content between the tags, by string operations
extract_fields(raw) ==
    LET prereq_start == find(raw, "<prerequisites>") + Len("<prerequisites>")
        prereq_end == find(raw, "</prerequisites>")
        excl_start == find(raw, "<exclusions>") + Len("<exclusions>")
        excl_end == find(raw, "</exclusions>")
    IN  IF prereq_start = -1 \/ prereq_end = -1 \/ excl_start = -1 \/ excl_end = -1
        THEN [found |-> FALSE, prerequisites |-> "", exclusions |-> ""]
        ELSE [found |-> TRUE,
              prerequisites |-> strip(slice(raw, prereq_start, prereq_end)),
              exclusions |-> strip(slice(raw, excl_start, excl_end))]

\* lines 260-305: from the model response to the returned dict
parse_requirements(response) ==
    IF response = NONE \/ response = "" THEN EmptyRequirements
    ELSE LET fields == extract_fields(strip(response))
             prereq == element_text(fields.prerequisites)
             excl == element_text(fields.exclusions)
         IN  IF ~fields.found THEN EmptyRequirements
             ELSE IF ~prereq.ok \/ ~excl.ok THEN EmptyRequirements
             ELSE [prerequisites |-> prereq.text, exclusions |-> excl.text]

InitRequirements ==
    /\ pc = "process_requirements"
    /\ req_text \in RequirementTexts
    /\ raw_response = NONE
    /\ requirements = <<>>
    /\ max_retries = 0 /\ attempt = 0 /\ replies = <<>> /\ generated = NONE
    /\ latest_data = <<>> /\ live_data = <<>> /\ result = <<>>
    /\ combined_df = <<>> /\ final_df = <<>>
    /\ ExtractIdle

\* nothing to process: the model is not asked
ReturnNoRequirements ==
    /\ pc = "process_requirements"
    /\ req_text = "" \/ strip(req_text) \in {"N/A", ""}
    /\ requirements' = EmptyRequirements
    /\ pc' = "processed"
    /\ UNCHANGED <<req_text, raw_response, ollama_vars,
                   extract_vars, teacher_vars, dept_vars>>

\* the model is asked and its response is parsed
ProcessRequirements ==
    /\ pc = "process_requirements"
    /\ ~(req_text = "" \/ strip(req_text) \in {"N/A", ""})
    /\ \E response \in GenerateResults :
          /\ raw_response' = response
          /\ requirements' = parse_requirements(response)
    /\ pc' = "processed"
    /\ UNCHANGED <<req_text, ollama_vars, extract_vars, teacher_vars, dept_vars>>

NextRequirements == ReturnNoRequirements \/ ProcessRequirements

SpecRequirements == InitRequirements /\ [][NextRequirements]_vars

-----------------------------------------------------------------------------
(* Input-side vocabulary used to state the properties                      *)

IsNameLine(line) == COURSE_NAME_PATTERN_match(line)

IsMarkerLine(line) == ~IsNameLine(line) /\ has_description_marker(line)

NamePositions(lines) == {i \in 1..Len(lines) : IsNameLine(lines[i])}

\* a header-shaped line lies before position i with no description marker
\* between it and i
HeaderOpenNoMarker(lines, i) ==
    \E j \in 1..(i - 1) :
        /\ IsNameLine(lines[j])
        /\ \A m \in (j + 1)..(i - 1) : ~IsMarkerLine(lines[m])

\* a header-shaped line lies before position i and a description marker
\* lies between the last such line and i
MarkerSincePreviousHeader(lines, i) ==
    /\ \E j \in 1..(i - 1) : IsNameLine(lines[j])
    /\ \E m \in 1..(i - 1) :
          /\ IsMarkerLine(lines[m])
          /\ \A j \in (m + 1)..(i - 1) : ~IsNameLine(lines[j])

\* positions of the genuine headers: header-shaped lines that are not
\* preceded by an open header without a description marker
GenuineHeaders(lines) ==
    {i \in NamePositions(lines) : ~HeaderOpenNoMarker(lines, i)}

\* the position of the n-th genuine header (Len + 1 past the last one)
HeaderPos(lines, n) ==
    LET G == GenuineHeaders(lines)
    IN  IF n > Cardinality(G) THEN Len(lines) + 1
        ELSE CHOOSE i \in G : Cardinality({j \in G : j < i}) = n - 1

\* number of (name line, segment) pairs the assembler has consumed
Assembled ==
    IF pc \in {"count_codes", "segment"} THEN 0
    ELSE IF pc = "assemble" THEN k - 1
    ELSE Min(Len(cn_list), Len(cd_list))

\* the pair a record of the output map was built from: the last consumed
\* pair carrying its code
SourceOf(code) ==
    CHOOSE i \in 1..Assembled :
        /\ get_course_code(cn_list[i]) = code
        /\ \A j \in (i + 1)..Assembled : get_course_code(cn_list[j]) # code

IsBlockDoc(lines) ==
    /\ Len(lines) > 0
    /\ Len(lines) % 4 = 0
    /\ \A i \in 1..(Len(lines) \div 4) :
          \E t \in Tuples : SubSeq(lines, 4 * i - 3, 4 * i) = Block(t)
    /\ \A i, j \in 1..(Len(lines) \div 4) :
          i # j => get_course_code(lines[4 * i - 3]) # get_course_code(lines[4 * j - 3])

Injected(lines, i) ==
    CHOOSE t \in Tuples : SubSeq(lines, 4 * i - 3, 4 * i) = Block(t)

-----------------------------------------------------------------------------
(* C1: round trip.  A document built from K blocks (header, unit line,     *)
(* prerequisite line, description line) with pairwise distinct codes is    *)
(* parsed back into exactly K records, record i carrying the code, title,  *)
(* unit, prerequisite ("N/A" for "None") and description of block i.       *)

C1_RoundTrip ==
    (pc = "saved" /\ IsBlockDoc(text)) =>
        LET K == Len(text) \div 4
        IN  /\ Len(course_dict) = K
            /\ Len(records_tsv) = K
            /\ Len(code_desc_dict) = K
            /\ \A i \in 1..K :
                  LET t == Injected(text, i)
                  IN  /\ records_tsv[i].course_code = t.code
                      /\ records_tsv[i].course_name = t.title
                      /\ records_tsv[i].unit = t.unit
                      /\ records_tsv[i].prerequisite =
                            (IF t.prerequisite = "None" THEN "N/A" ELSE t.prerequisite)
                      /\ code_desc_dict[i].course_code = t.code
                      /\ code_desc_dict[i].description = t.description

-----------------------------------------------------------------------------
(* C2: for a document with N genuine headers, N >= 0, once the segmenter's *)
(* pass is over the number of segments equals N and equals the number of   *)
(* course-name lines recorded.                                             *)

C2_SegmentCount ==
    pc \notin {"count_codes", "segment"} =>
        /\ Len(cd_list) = Cardinality(GenuineHeaders(text))
        /\ Len(cd_list) = Len(cn_list)

-----------------------------------------------------------------------------
(* C3: once a header is open, a later header-shaped line that arrives      *)
(* before any description marker is appended to the current buffer; it     *)
(* adds no course-name line, no segment and no record.                     *)

C3_AbsorbedHeader ==
    [][ (/\ pc = "segment" /\ k <= Len(text)
         /\ IsNameLine(text[k])
         /\ HeaderOpenNoMarker(text, k))
        => (/\ temp_c_list' = Append(temp_c_list, text[k])
            /\ cn_list' = cn_list
            /\ cd_list' = cd_list
            /\ course_dict' = course_dict) ]_vars

C3_Witness ==
    /\ pc = "segment" /\ k > 2
    /\ IsNameLine(text[k - 1])
    /\ HeaderOpenNoMarker(text, k - 1)
    /\ temp_c_list # <<>>
    /\ temp_c_list[Len(temp_c_list)] = text[k - 1]
    /\ Len(cn_list) = 1

-----------------------------------------------------------------------------
(* C4: a header-shaped line that arrives after a description marker has    *)
(* been seen since the previous header starts a new course: the buffer is  *)
(* flushed as the segment of the previous course, a new empty buffer is    *)
(* started, the line becomes the next course-name line and later           *)
(* header-shaped lines are absorbed again.                                 *)

C4_NewCourse ==
    [][ (/\ pc = "segment" /\ k <= Len(text)
         /\ IsNameLine(text[k])
         /\ MarkerSincePreviousHeader(text, k))
        => (/\ cd_list' = Append(cd_list, temp_c_list)
            /\ Len(cd_list') = Len(cn_list)
            /\ temp_c_list' = <<>>
            /\ cn_list' = Append(cn_list, text[k])
            /\ new_flag' = 1) ]_vars

C4_Witness ==
    /\ pc = "segment" /\ k > 3
    /\ IsNameLine(text[k - 1])
    /\ MarkerSincePreviousHeader(text, k - 1)
    /\ Len(cn_list) = 2
    /\ Len(cd_list) = 1
    /\ cd_list[1] # <<>>
    /\ temp_c_list = <<>>

-----------------------------------------------------------------------------
(* C5: segments[i] holds only lines positioned after the header line       *)
(* course_name_lines[i] and before the next header line (or the end of     *)
(* the input); lines that precede the first header are in no segment.      *)

C5_SegmentWithinHeaders ==
    pc \notin {"count_codes", "segment"} =>
        \A i \in 1..Min(Len(cn_list), Len(cd_list)) :
            LET lo == HeaderPos(text, i)
                hi == HeaderPos(text, i + 1)
            IN  /\ Len(cd_list[i]) <= hi - lo - 1
                /\ \A e \in 1..Len(cd_list[i]) :
                      \E m \in (lo + 1)..(hi - 1) : cd_list[i][e] = text[m]

-----------------------------------------------------------------------------
(* C6: course_name is the header line with its code removed and trimmed,   *)
(* followed by exactly the non-empty segment lines that precede the first  *)
(* segment line containing "(", joined with single spaces and trimmed; no  *)
(* line at or after the first "(" line contributes.                        *)

FirstParenLine(r) ==
    LET P == {i \in 1..Len(r) : Contains(r[i], "(")}
    IN  IF P = {} THEN Len(r) + 1 ELSE CHOOSE i \in P : \A j \in P : i <= j

ExpectedName(n, r) ==
    LET before == SubSeq(r, 1, FirstParenLine(r) - 1)
        parts == <<strip(replace(n, get_course_code(n), ""))>>
                     \o SelectSeq(before, LAMBDA line : line # "")
    IN  strip(join(" ", parts))

C6_CourseName ==
    \A c \in 1..Len(course_dict) :
        LET i == SourceOf(course_dict[c].course_code)
        IN  course_dict[c].course_name = ExpectedName(cn_list[i], cd_list[i])

C6_Witness ==
    \E c \in 1..Len(course_dict) :
        LET r == cd_list[SourceOf(course_dict[c].course_code)]
        IN  /\ course_dict[c].course_name = "ADVANCED STRATEGIC MANAGEMENT"
            /\ r = <<"STRATEGIC MANAGEMENT", "(3 units)">>

-----------------------------------------------------------------------------
(* C7: whenever the accumulated prerequisite text of a course contains the *)
(* literal text "None", the prerequisite written for it is exactly "N/A".  *)

C7_NoneIsNA ==
    \A i \in 1..Len(records_tsv) :
        Contains(course_dict[i].prerequisite, "None")
            => records_tsv[i].prerequisite = "N/A"

C7_Witness ==
    \E i \in 1..Len(records_tsv) :
        /\ Contains(course_dict[i].prerequisite, "None Course required")
        /\ records_tsv[i].prerequisite = "N/A"

-----------------------------------------------------------------------------
(* C8: whenever the accumulated prerequisite text of a course is empty     *)
(* after trimming, the prerequisite written for it is exactly "N/A",       *)
(* never the empty string.                                                 *)

C8_EmptyIsNA ==
    \A i \in 1..Len(records_tsv) :
        strip(course_dict[i].prerequisite) = ""
            => records_tsv[i].prerequisite = "N/A"

-----------------------------------------------------------------------------
(* C9: the written description is the joined description text with         *)
(* everything up to and including its first colon removed, trimmed; every  *)
(* character after the first colon, later colons included, is preserved.   *)

JoinedDescription(v) ==
    join("", SelectSeq(v, LAMBDA line : ~PAGE_NUMBER_PATTERN_match(strip(line))))

AfterFirstColon(s) ==
    LET C == {i \in 1..Len(s) : CharAt(s, i) = ":"}
        first == CHOOSE i \in C : \A j \in C : i <= j
    IN  SubSeq(s, first + 1, Len(s))

C9_AfterFirstColon ==
    pc = "saved" =>
        \A i \in 1..Len(code_desc_dict) :
            LET joined == JoinedDescription(course_dict[i].description)
            IN  Contains(joined, ":")
                    => code_desc_dict[i].description = strip(AfterFirstColon(joined))

-----------------------------------------------------------------------------
(* C10: unit is the second character of the first segment line whose       *)
(* trimmed form matches the unit-annotation pattern and is absent when no  *)
(* line matches; it is therefore absent or a single decimal digit, and     *)
(* later unit-annotation lines of the segment never change it.             *)

UnitLines(r) == {i \in 1..Len(r) : UNIT_PATTERN_match(strip(r[i]))}

C10_Unit ==
    \A c \in 1..Len(course_dict) :
        LET r == cd_list[SourceOf(course_dict[c].course_code)]
            U == UnitLines(r)
            unit == course_dict[c].unit
        IN  /\ unit = NONE \/ unit \in DIGIT
            /\ U = {} => unit = NONE
            /\ U # {} =>
                  LET first == CHOOSE i \in U : \A j \in U : i <= j
                  IN  unit = CharAt(strip(r[first]), 2)

C10_Witness ==
    \E c \in 1..Len(course_dict) :
        LET r == cd_list[SourceOf(course_dict[c].course_code)]
            U == UnitLines(r)
        IN  /\ course_dict[c].unit = "4"
            /\ \E i, j \in U : i < j /\ r[i] = " (4 UNIT) " /\ r[j] = "(3 units)"

-----------------------------------------------------------------------------
(* C11: when two or more started courses have the same course code, the    *)
(* output map holds exactly one record for that code and its fields are    *)
(* those extracted from the last such course in document order; records    *)
(* of other codes are unaffected.                                          *)

Payload(n, r) ==
    [course_code |-> get_course_code(n),
     course_name |-> get_course_name(n, r),
     unit |-> get_course_unit(r),
     prerequisite |-> get_course_pre(r),
     description |-> get_course_desc(r)]

C11_LastWriteWins ==
    \A i \in 1..Assembled :
        LET code == get_course_code(cn_list[i])
            same == {j \in 1..Assembled : get_course_code(cn_list[j]) = code}
            last == CHOOSE j \in same : \A m \in same : m <= j
            recs == {c \in 1..Len(course_dict) : course_dict[c].course_code = code}
        IN  /\ Cardinality(recs) = 1
            /\ \A c \in recs : course_dict[c] = Payload(cn_list[last], cd_list[last])

C11_Witness ==
    /\ Assembled = 2
    /\ get_course_code(cn_list[1]) = get_course_code(cn_list[2])
    /\ Payload(cn_list[1], cd_list[1]) # Payload(cn_list[2], cd_list[2])
    /\ Len(course_dict) = 1

-----------------------------------------------------------------------------
(* C12: parsing an empty line sequence terminates without error, yields    *)
(* zero records and reports an explicit EmptyInput / "no data" diagnostic. *)

\* a diagnostic that stands out from the INFO lines written for every input
NoDataReported ==
    \E i \in 1..Len(log) : log[i].level # "INFO"

C12_EmptyInput ==
    (text = <<>> /\ pc \in {"done", "saved"}) =>
        (course_dict = <<>> /\ NoDataReported)

-----------------------------------------------------------------------------
(* C13: for every line that matches the anchored course-name pattern the   *)
(* code found by get_course_code (first unanchored match) is the code      *)
(* captured at the start of the line, so the key of a record is always the *)
(* code at the start of its header line.                                   *)

AnchoredCode(line) == SubSeq(line, 1, CodeLenAt(line, 1))

C13_CodeAgrees ==
    /\ \A i \in 1..Len(text) :
          IsNameLine(text[i]) => get_course_code(text[i]) = AnchoredCode(text[i])
    /\ \A i \in 1..Assembled :
          \E c \in 1..Len(course_dict) :
              course_dict[c].course_code = AnchoredCode(cn_list[i])
    /\ \A c \in 1..Len(course_dict) :
          \E i \in 1..Assembled :
              course_dict[c].course_code = AnchoredCode(cn_list[i])

C13_Witness ==
    /\ Assembled >= 1
    /\ cn_list[1] = "MATH1003 SEE ACCT1013"
    /\ Len(course_dict) = 1
    /\ course_dict[1].course_code = "MATH1003"

-----------------------------------------------------------------------------
(* C17: the segmenter starts in the state in which a course-name line is   *)
(* appended to the current buffer and does not start a new course; hence   *)
(* a course-name line that precedes every description marker of the        *)
(* document does not open a course.                                        *)

NoMarkerBefore(lines, i) == \A m \in 1..(i - 1) : ~IsMarkerLine(lines[m])

C17_HeaderBeforeMarkersAbsorbed ==
    [][ (/\ pc = "segment" /\ k <= Len(text)
         /\ IsNameLine(text[k])
         /\ NoMarkerBefore(text, k))
        => (/\ cn_list' = cn_list
            /\ temp_c_list' = Append(temp_c_list, text[k])) ]_vars

\* C17 as amended: the segmenter starts with new_flag = 0, the state in
\* which a course-name line starts a new course; the first course-name line
\* of the document opens a course (nothing is flushed, the buffer is kept)
\* even when no description marker precedes it.
C17_FirstHeaderOpens ==
    [][ (/\ pc = "segment" /\ k <= Len(text)
         /\ IsNameLine(text[k])
         /\ \A j \in 1..(k - 1) : ~IsNameLine(text[j]))
        => (/\ new_flag = 0
            /\ cn_list' = <<text[k]>>
            /\ new_flag' = 1
            /\ cd_list' = <<>>
            /\ temp_c_list' = temp_c_list) ]_vars

C17_Witness ==
    /\ pc = "segment" /\ k = 3
    /\ ~IsNameLine(text[1])
    /\ NoMarkerBefore(text, 2)
    /\ cn_list = <<text[2]>>
    /\ temp_c_list = <<text[1]>>

-----------------------------------------------------------------------------
(* C18: the prerequisite text of a segment is the concatenation, with no   *)
(* separator, of exactly the segment lines from the first line containing  *)
(* "Pre-requisite(s):" (marker substring removed) up to but excluding the  *)
(* first description-marker line; if the description marker comes first    *)
(* or on the same line, the text is empty.                                 *)

ExpectedPre(r) ==
    LET P == {i \in 1..Len(r) : Contains(r[i], PREREQ_MARKER)}
        D == {i \in 1..Len(r) : has_description_marker(r[i])}
        firstD == IF D = {} THEN Len(r) + 1 ELSE CHOOSE i \in D : \A j \in D : i <= j
    IN  IF P = {} THEN ""
        ELSE LET firstP == CHOOSE i \in P : \A j \in P : i <= j
             IN  IF firstP >= firstD THEN ""
                 ELSE join("", [i \in 1..(firstD - firstP) |->
                                   replace(r[firstP + i - 1], PREREQ_MARKER, "")])

C18_Prerequisite ==
    \A c \in 1..Len(course_dict) :
        course_dict[c].prerequisite =
            ExpectedPre(cd_list[SourceOf(course_dict[c].course_code)])

C18_Witness ==
    \E c \in 1..Len(course_dict) :
        LET r == cd_list[SourceOf(course_dict[c].course_code)]
        IN  /\ r = <<"Pre-requisite(s): None Course required", "STRATEGIC MANAGEMENT">>
            /\ course_dict[c].prerequisite = " None Course requiredSTRATEGIC MANAGEMENT"

-----------------------------------------------------------------------------
(* C19: the description is built from exactly the segment lines at or      *)
(* after the first description-marker line, in order, with exactly the     *)
(* bare page-number lines "<digits> / <digits>" removed; a line that only  *)
(* begins with such a pattern and carries further text is kept.            *)

AllDigits(s) == s # "" /\ \A i \in 1..Len(s) : CharAt(s, i) \in DIGIT

\* the whole trimmed line is <digits> / <digits>
BarePageNumber(line) ==
    LET t == strip(line)
    IN  \E a \in 1..Len(t) :
            /\ AllDigits(SubSeq(t, 1, a))
            /\ SubSeq(t, a + 1, Min(a + 3, Len(t))) = " / "
            /\ AllDigits(SubSeq(t, a + 4, Len(t)))

ExpectedDescriptionLines(r) ==
    LET D == {i \in 1..Len(r) : has_description_marker(r[i])}
    IN  IF D = {} THEN <<>>
        ELSE LET firstD == CHOOSE i \in D : \A j \in D : i <= j
             IN  SelectSeq(SubSeq(r, firstD, Len(r)), LAMBDA line : ~BarePageNumber(line))

C19_DescriptionLines ==
    pc = "saved" =>
        \A i \in 1..Len(code_desc_dict) :
            LET r == cd_list[SourceOf(code_desc_dict[i].course_code)]
            IN  code_desc_dict[i].description =
                    strip(join("", Tail(split(join("", ExpectedDescriptionLines(r)), ":"))))

-----------------------------------------------------------------------------
(* C20: a course that has no description marker before the next course     *)
(* header is surfaced as a segmentation mismatch: for such an input the    *)
(* number of segments differs from the number of course-name lines after   *)
(* the pass.                                                               *)

CourseWithoutMarker(lines) ==
    \E i \in 1..Len(lines) : IsNameLine(lines[i]) /\ HeaderOpenNoMarker(lines, i)

C20_MismatchSurfaced ==
    (pc \notin {"count_codes", "segment"} /\ CourseWithoutMarker(text)) => Len(cd_list) # Len(cn_list)

-----------------------------------------------------------------------------
(* C14: merge_teacher_data: every output row with a uid has                *)
(* incumbencyStatus ACTIVE if that uid occurs in the latest data and       *)
(* RESIGNED otherwise; for a live row whose uid occurs in the latest data, *)
(* name, description and url come from the latest row and every other      *)
(* field is kept from the live row.                                        *)

HasUid(row) == strip(row.uid) # ""

InLatest(uid) == \E j \in 1..Len(latest_data) : strip(latest_data[j].uid) = uid

\* the row of the latest data that counts for a uid: the last one
LatestRowOf(uid) ==
    LET J == {j \in 1..Len(latest_data) : strip(latest_data[j].uid) = uid}
    IN  latest_data[CHOOSE j \in J : \A m \in J : m <= j]

LiveWithUid == SelectSeq(live_data, HasUid)

C14_StatusAndOverride ==
    pc = "merged" =>
        /\ \A i \in 1..Len(result) :
              HasUid(result[i]) =>
                  result[i].incumbencyStatus =
                      (IF InLatest(strip(result[i].uid)) THEN "ACTIVE" ELSE "RESIGNED")
        /\ Len(result) >= Len(LiveWithUid)
        /\ \A i \in 1..Len(LiveWithUid) :
              LET row == LiveWithUid[i]
              IN  /\ DOMAIN result[i] = DOMAIN row
                  /\ \A f \in DOMAIN row \ {"name", "description", "url", "incumbencyStatus"} :
                        result[i][f] = row[f]
                  /\ InLatest(strip(row.uid)) =>
                        /\ result[i].name = LatestRowOf(strip(row.uid)).name
                        /\ result[i].description = LatestRowOf(strip(row.uid)).description
                        /\ result[i].url = LatestRowOf(strip(row.uid)).url

C14_Witness ==
    /\ pc = "merged"
    /\ Len(result) = 2
    /\ live_data[1].uid = "u1" /\ live_data[1].incumbencyStatus = "RESIGNED"
    /\ live_data[2].uid = "u2" /\ live_data[2].incumbencyStatus = "ACTIVE"
    /\ result[1].name = "Bob" /\ result[1].incumbencyStatus = "ACTIVE"
    /\ result[1].remark = "kept"
    /\ result[2].name = "Old" /\ result[2].incumbencyStatus = "RESIGNED"

-----------------------------------------------------------------------------
(* C15: merge_teacher_data: every row without a uid is kept as-is and      *)
(* appears in the result after all rows that have a uid, in its original   *)
(* relative order; no row without a uid is lost, whether it came from the  *)
(* live data or from the latest data.                                      *)

NoUid(row) == ~HasUid(row)

IsLiveRow(row) == "incumbencyStatus" \in DOMAIN row

C15_NoUidRowsKept ==
    pc = "merged" =>
        /\ \A i, j \in 1..Len(result) :
              (i < j /\ NoUid(result[i])) => NoUid(result[j])
        /\ SelectSeq(result, LAMBDA r : NoUid(r) /\ IsLiveRow(r))
              = SelectSeq(live_data, NoUid)
        /\ SelectSeq(result, LAMBDA r : NoUid(r) /\ ~IsLiveRow(r))
              = SelectSeq(latest_data, NoUid)

-----------------------------------------------------------------------------
(* C16: merge_department_files keeps exactly one record per course code,   *)
(* the most recent one: a later academic year beats an earlier one, and    *)
(* within one academic year the Semester 2 / SPRING record is more recent  *)
(* than the Semester 1 / FALL record.                                      *)

MoreRecent(a, b) ==
    \/ a.year > b.year
    \/ a.year = b.year /\ a.semester = "SPRING" /\ b.semester = "FALL"

C16_MostRecentKept ==
    pc = "unified" =>
        \A i \in 1..Len(combined_df) :
            LET code == combined_df[i].code
                kept == {n \in 1..Len(final_df) : final_df[n].code = code}
            IN  /\ Cardinality(kept) = 1
                /\ \A n \in kept :
                      /\ \E j \in 1..Len(combined_df) : combined_df[j] = final_df[n]
                      /\ ~MoreRecent(combined_df[i], final_df[n])

-----------------------------------------------------------------------------
(* C21: the set of distinct course codes counted by the sanity-check       *)
(* diagnostic is a superset of the set of keys of the final record map,    *)
(* for every input.                                                        *)

CountedCodes == {cc_dict[i].code : i \in 1..Len(cc_dict)}

RecordKeys == {course_dict[i].course_code : i \in 1..Len(course_dict)}

C21_CountedSuperset ==
    pc # "count_codes" => RecordKeys \subseteq CountedCodes

C21_Witness ==
    /\ pc = "done"
    /\ RecordKeys = {"ACCT1013"}
    /\ CountedCodes = {"ACCT1013", "BUSA2003"}
    /\ log[2].args = <<2>>

-----------------------------------------------------------------------------
(* C22: the distinct-codes diagnostic counts every distinct course code    *)
(* that occurs anywhere in any input line, including codes that appear in  *)
(* the middle of a line (a cross-reference inside a prerequisite clause).  *)

RECURSIVE CodesFrom(_, _)
\* the codes found in a line from position i on, scanning left to right
CodesFrom(line, i) ==
    IF i > Len(line) THEN {}
    ELSE IF CodeLenAt(line, i) > 0
         THEN {SubSeq(line, i, i + CodeLenAt(line, i) - 1)}
                  \cup CodesFrom(line, i + CodeLenAt(line, i))
         ELSE CodesFrom(line, i + 1)

CodesAnywhere(lines) == UNION {CodesFrom(lines[i], 1) : i \in 1..Len(lines)}

C22_EveryCodeCounted ==
    pc # "count_codes" =>
        /\ CountedCodes = CodesAnywhere(text)
        /\ log[2].args = <<Cardinality(CodesAnywhere(text))>>

-----------------------------------------------------------------------------
(* C25: conservation.  Each input line ends up exactly once, either as an  *)
(* entry of the course-name lines or as an element of exactly one segment, *)
(* and the relative order of lines is preserved inside every segment: the  *)
(* line count equals the number of course-name lines plus the total length *)
(* of all segments; no line is dropped, duplicated or altered.             *)

Count(v, seq) == Cardinality({i \in 1..Len(seq) : seq[i] = v})

RECURSIVE IsSubseq(_, _)
\* sub is obtained from seq by deleting elements
IsSubseq(sub, seq) ==
    IF sub = <<>> THEN TRUE
    ELSE IF seq = <<>> THEN FALSE
    ELSE IF Head(sub) = Head(seq) THEN IsSubseq(Tail(sub), Tail(seq))
    ELSE IsSubseq(sub, Tail(seq))

\* the lines the pass has consumed and where it keeps them
Consumed == IF pc = "segment" THEN SubSeq(text, 1, k - 1) ELSE text

Kept == IF pc = "segment" THEN Flatten(cd_list) \o temp_c_list ELSE Flatten(cd_list)

C25_Conservation ==
    pc # "count_codes" =>
        /\ Len(Consumed) = Len(cn_list) + Len(Kept)
        /\ \A i \in 1..Len(Consumed) :
              Count(Consumed[i], Consumed)
                  = Count(Consumed[i], cn_list) + Count(Consumed[i], Kept)
        /\ IsSubseq(cn_list, Consumed)
        /\ IsSubseq(Kept, Consumed)

C25_Witness ==
    /\ pc = "assemble"
    /\ Len(text) = 3
    /\ Len(cn_list) = 1
    /\ cd_list = <<<<text[1], text[3]>>>>
    /\ text[1] # text[3]

-----------------------------------------------------------------------------
(* C26: after the pass the number of segments is max(1, number of          *)
(* course-name lines) for every input; the header and segment counts       *)
(* differ exactly when no course header was started (the empty input       *)
(* included) and are equal for every input with a started header, whatever *)
(* markers it contains.                                                    *)

Segmented == pc \notin {"count_codes", "segment"}

MarkerPositions(lines) == {i \in 1..Len(lines) : IsMarkerLine(lines[i])}

C26_SegmentsMaxOneHeaders ==
    Segmented =>
        /\ Len(cn_list) = Cardinality(GenuineHeaders(text))
        /\ Len(cd_list) = (IF Len(cn_list) >= 1 THEN Len(cn_list) ELSE 1)
        /\ (Len(cd_list) # Len(cn_list)) <=> (cn_list = <<>>)

C26_Witness ==
    /\ pc = "assemble"
    /\ Len(cn_list) = 1 /\ Len(cd_list) = 1
    /\ \E i \in 1..Len(text) : IsNameLine(text[i]) /\ HeaderOpenNoMarker(text, i)
    /\ MarkerPositions(text) = {}

-----------------------------------------------------------------------------
(* C27: every segment except the last contains a description-marker line,  *)
(* the number of started courses never exceeds one plus the number of      *)
(* description-marker lines of the input, and between any two consecutive  *)
(* started headers there is at least one description-marker line.          *)

\* the segments that are closed in the current state
ClosedSegments == IF pc = "segment" THEN Len(cd_list) ELSE Len(cd_list) - 1

C27_MarkerBetweenHeaders ==
    pc # "count_codes" =>
        /\ \A i \in 1..ClosedSegments :
              \E j \in 1..Len(cd_list[i]) : has_description_marker(cd_list[i][j])
        /\ Len(cn_list) <= 1 + Cardinality(MarkerPositions(text))
        /\ Segmented =>
              \A n \in 1..(Len(cn_list) - 1) :
                  \E m \in MarkerPositions(text) :
                      HeaderPos(text, n) < m /\ m < HeaderPos(text, n + 1)

C27_Witness ==
    /\ pc = "assemble"
    /\ Len(cd_list) = 2
    /\ cd_list[2] = <<>>
    /\ Len(cd_list[1]) = 1

-----------------------------------------------------------------------------
(* C28: no started course is discarded.  Every course-name line yields a   *)
(* course code, the malformed-header warning is never written, and for     *)
(* every input with a started header the number of records of the output   *)
(* map equals the number of distinct codes among the course-name lines.    *)

NameCodes == {get_course_code(cn_list[i]) : i \in 1..Len(cn_list)}

C28_NoCourseDiscarded ==
    /\ NONE \notin NameCodes
    /\ \A i \in 1..Len(log) : log[i].level # "WARNING"
    /\ (pc \in {"done", "records", "descriptions", "saved"} /\ cn_list # <<>>) =>
          /\ Len(course_dict) = Cardinality(NameCodes)
          /\ RecordKeys = NameCodes

C28_Witness ==
    /\ pc = "done"
    /\ Len(cn_list) = 2
    /\ NameCodes = {"MATH1003", "ACCT1013"}
    /\ Len(course_dict) = 2

-----------------------------------------------------------------------------
(* C29: when the joined description text of a course contains no colon at  *)
(* all (the marker appears as "Course Description" without a colon and the *)
(* body has none), the emitted description is the empty string, although   *)
(* the segment holds description text.                                     *)

C29_ColonlessDescriptionEmpty ==
    pc = "saved" =>
        \A i \in 1..Len(code_desc_dict) :
            ~Contains(JoinedDescription(course_dict[i].description), ":")
                => code_desc_dict[i].description = ""

C29_Witness ==
    /\ pc = "saved"
    /\ Len(code_desc_dict) = 1
    /\ course_dict[1].description = <<"Course Description", "This course covers basics.">>
    /\ code_desc_dict[1].description = ""

-----------------------------------------------------------------------------
(* C30: the result of merge_teacher_data has exactly len(live_data) +      *)
(* (number of distinct non-empty uids of latest_data that occur in no live *)
(* row) rows; every live row appears exactly once (duplicated live uids    *)
(* stay duplicated), every uid that is new in the latest data appears      *)
(* exactly once, and rows with a uid keep live-data order followed by the  *)
(* new uids.                                                               *)

LiveUids == {strip(live_data[i].uid) : i \in 1..Len(live_data)}

\* positions of the first latest row of each uid that is new
NewUidPositions ==
    {j \in 1..Len(latest_data) :
        /\ strip(latest_data[j].uid) # ""
        /\ strip(latest_data[j].uid) \notin LiveUids
        /\ \A m \in 1..(j - 1) : strip(latest_data[m].uid) # strip(latest_data[j].uid)}

\* the n-th new uid, in the order of first occurrence in latest_data
NewUid(n) ==
    LET P == NewUidPositions
        j == CHOOSE q \in P : Cardinality({m \in P : m < q}) = n - 1
    IN  strip(latest_data[j].uid)

C30_RowCountAndOrder ==
    pc = "merged" =>
        LET nLive == Len(LiveWithUid)
            nNew == Cardinality(NewUidPositions)
        IN  /\ Len(result) = Len(live_data) + nNew
            /\ \A i \in 1..nLive :
                  /\ IsLiveRow(result[i])
                  /\ result[i].uid = LiveWithUid[i].uid
                  /\ result[i].remark = LiveWithUid[i].remark
            /\ \A n \in 1..nNew :
                  /\ strip(result[nLive + n].uid) = NewUid(n)
                  /\ result[nLive + n] =
                        row_set(LatestRowOf(NewUid(n)), "incumbencyStatus", "ACTIVE")
            /\ SubSeq(result, nLive + nNew + 1, Len(result)) = SelectSeq(live_data, NoUid)

C30_Witness ==
    /\ pc = "merged"
    /\ Len(result) = 4
    /\ live_data[1].uid = "u2" /\ live_data[2].uid = "u2"
    /\ result[1].uid = "u2" /\ result[2].uid = "u2"
    /\ result[3].uid = "u3" /\ result[4].uid = " u1"

-----------------------------------------------------------------------------
(* C23: OllamaClient.generate makes at most max_retries POST attempts,     *)
(* stops at the first attempt that returns status 200 and returns that     *)
(* response's text, retries both after a non-200 status and after a        *)
(* request exception, and returns None exactly when no attempt returned    *)
(* status 200; it always terminates.                                       *)

Status200(reply) == reply.kind = "response" /\ reply.status = 200

Decoded200(reply) == Status200(reply) /\ reply.json

C23_Safe ==
    /\ Len(replies) <= max_retries
    /\ \A i \in 1..(Len(replies) - 1) : ~Decoded200(replies[i])
    /\ pc = "returned" =>
          /\ (generated = NONE) <=> (\A i \in 1..Len(replies) : ~Decoded200(replies[i]))
          /\ (replies # <<>> /\ Decoded200(replies[Len(replies)]))
                => generated = strip(replies[Len(replies)].response)
          /\ generated = NONE => Len(replies) = max_retries
    /\ (pc = "generate" /\ replies # <<>>) => ~Decoded200(replies[Len(replies)])
    /\ pc = "raised" =>
          Status200(replies[Len(replies)]) /\ ~replies[Len(replies)].json

-----------------------------------------------------------------------------
(* C24: process_requirements_with_ollama: whenever any of the four tags    *)
(* <prerequisites>, </prerequisites>, <exclusions>, </exclusions> is       *)
(* missing from the model response, the function returns empty             *)
(* prerequisites and empty exclusions; text outside the tags never ends up *)
(* in either returned field.                                               *)

RequiredTags == {"<prerequisites>", "</prerequisites>", "<exclusions>", "</exclusions>"}

\* the text between an opening tag and its closing tag, "" without them
Between(raw, open, close) ==
    IF find(raw, open) = -1 \/ find(raw, close) = -1 THEN ""
    ELSE slice(raw, find(raw, open) + Len(open), find(raw, close))

C24_MissingTagReturnsEmpty ==
    (pc = "processed" /\ raw_response # NONE) =>
        /\ (\E tag \in RequiredTags : ~Contains(raw_response, tag))
              => requirements = EmptyRequirements
        /\ requirements.prerequisites
              \in {"", strip(Between(raw_response, "<prerequisites>", "</prerequisites>"))}
        /\ requirements.exclusions
              \in {"", strip(Between(raw_response, "<exclusions>", "</exclusions>"))}

====
